---- MODULE Spec2Model ----
(***************************************************************************)
(* Model of the database rebuild-and-swap pipeline of ocr-validator-app    *)
(* (src/app/tools/rebuild_db.py).                                          *)
(*                                                                         *)
(*   SpecSwap    : swap_live_db, one action per step of the function, the  *)
(*                 outcome of every file-system call drawn with \E.        *)
(*   SpecRebuild : rebuild_db_from_validations (Open, Clear, corruption    *)
(*                 fallback, Import in batches, Reindex, Summary).         *)
(*   SpecRebuildFair : SpecRebuild with weak fairness of the run's steps.  *)
(*   SpecTwice   : SpecRebuild followed by a second run.                   *)
(*   SpecCollect : collect_sources over the ledgers of the tables.         *)
(*   SpecBuild   : build_db_offline_fast.                                  *)
(*   SpecPipeline : calls of build_db_offline_fast and of swap_live_db,    *)
(*                 one after the other.                                    *)
(*   SpecZip     : extract_zip_safely of the admin upload page             *)
(*                 (src/app/pages/99_Admin_Upload_Data.py).                *)
(***************************************************************************)
EXTENDS Integers, Sequences, FiniteSets, TLC

(***************************************************************************)
(* Bounds                                                                  *)
(***************************************************************************)
\* largest value of the retries argument of swap_live_db that is explored
MaxRetries == 2
\* number of calls of swap_live_db in one behaviour (a call and its retry)
MaxCalls == 2

(***************************************************************************)
(* Files.  A file is absent or holds a set of committed data items; the    *)
(* write-ahead sidecar holds the items not yet merged into the main file.  *)
(***************************************************************************)
Absent == [ex |-> FALSE, data |-> {}]

File(d) == [ex |-> TRUE, data |-> d]

\* live_path, its sidecars, live_path.with_suffix(".bak"), build_path
SwapPaths == {"live", "live-wal", "live-shm", "bak", "build"}

NoErr == [kind |-> "None", step |-> "none", names |-> {}]

NoArgs == [backup |-> FALSE, retries |-> 0]

Steps == {"backup", "promote"}

VARIABLES
    fs,        \* path -> file
    swpc,      \* position inside swap_live_db
    args,      \* arguments of the current call: backup, retries
    i,         \* loop variable of the running retry loop
    last_err,  \* last_err / last_err2 of the running retry loop
    err,       \* the exception the call raised, NoErr if none
    pre,       \* history: fs when the current call started
    first,     \* history: fs when the first call started
    ncalls,    \* history: number of calls started
    att,       \* history: rename attempts of the current call, per step
    fails,     \* history: PermissionErrors of the current call, per step
    outcome,   \* history: how each retry loop of the current call ended
    \* ---- rebuild_db_from_validations ----
    rpc,       \* position inside rebuild_db_from_validations
    chunk_size, \* the chunk_size argument
    dbf,       \* which of DB_FILE, DB_FILE-wal, DB_FILE-shm exist
    corrupt,   \* the store file is damaged
    store,     \* committed rows of the managed tables
    store0,    \* history: store when the run started
    con,       \* the connection: "none", "open" or "fresh" (opened by the fallback)
    pending,   \* tables deleted in the open transaction
    tbl,       \* index in `tables` of the table being cleared
    oe,        \* the OperationalError last caught by the clear loop
    tgt,       \* index in `targets` of the file being removed
    ui,        \* loop variable of try_unlink
    rerr,      \* the exception the run raised, NoErr if none
    tasks,     \* the Build Tasks collect_sources returned
    total, chunks, processed, start, end, batch_imported, batch_validated_updates,
    pos,       \* index in tasks of the task the batch loop is at
    progress,  \* the PROGRESS lines printed so far
    info,      \* the other log lines printed so far
    procLog,   \* history: tasks handed to the importer, in order
    impOk,     \* history: tasks whose import returned
    impFail,   \* history: tasks whose import raised
    valCalled, \* history: tasks handed to the validation setter
    valFail,   \* history: tasks whose validation raised
    summary,   \* the row counts of the DONE line, NoSummary before it is printed
    annot,     \* sources whose rows carry the annotation the validation setter wrote
    run1       \* history: the outcome of the first run once a second run started

swapVars == <<fs, swpc, args, last_err, err, pre, first, ncalls, att, fails, outcome>>

rebuildVars == <<rpc, chunk_size, dbf, corrupt, store, store0, con, pending, tbl, oe, tgt, ui,
                 rerr, tasks, total, chunks, processed, start, end, batch_imported,
                 batch_validated_updates, pos, progress, info, procLog, impOk, impFail,
                 valCalled, valFail, summary, annot, run1>>

\* ---- collect_sources ----
VARIABLES
    cpc,       \* position inside collect_sources
    ti,        \* index in `tables` of the table the outer loop is at
    tno,       \* the table number parsed from the table name
    nent,      \* number of entries of the ledger that was loaded
    ei,        \* index of the ledger entry the inner loop is at
    raw,       \* the value the ledger holds for that entry
    meta,      \* meta after lines 58-59
    probe,     \* what csv_path.exists() and tsv_path.exists() returned
    source,    \* source after line 63, NoSource for None
    sources,   \* the list that is returned
    clog       \* the SKIP, WARN and MISS lines printed so far

collectVars == <<cpc, ti, tno, nent, ei, raw, meta, probe, source, sources, clog>>

\* ---- build_db_offline_fast ----
VARIABLES
    bpc,       \* position inside build_db_offline_fast
    btgt,      \* index in `targets` of the file _safe_remove_db_files is at
    bui,       \* loop variable of try_unlink
    berr,      \* the exception the call raised, NoErr if none
    built,     \* history: the paths the builder was invoked on
    removed,   \* history: the paths the call unlinked
    bfs0       \* history: fs when the call started

buildVars == <<bpc, btgt, bui, berr, built, removed, bfs0>>

\* ---- extract_zip_safely ----
VARIABLES
    zpc,       \* position inside extract_zip_safely
    znames,    \* zf.namelist() of the uploaded archive
    zi,        \* index of the name the validation loop is at
    zerr,      \* the name the ValueError was raised for, NoName if none
    passed,    \* history: the entries handed to zf.extractall
    written    \* history: the destinations the extraction wrote

zipVars == <<zpc, znames, zi, zerr, passed, written>>

\* the variables of the other entry points
auxVars == <<collectVars, buildVars, zipVars>>

\* i is the loop variable of every retry and batch loop
vars == <<swapVars, rebuildVars, i, auxVars>>

(***************************************************************************)
(* rebuild_db_from_validations                                             *)
(***************************************************************************)
\* most Build Tasks collect_sources returns
MaxTasks == 5
\* largest chunk_size argument that is explored
MaxChunk == 3

\* line 81: tables
Tables == <<"measurements", "reactions_fts", "reactions", "references_map">>

TableSet == {Tables[k] : k \in 1..Len(Tables)}

\* line 83: retries of one DELETE
ClearRetries == 5

\* line 17: retries of one unlink
RemoveRetries == 10

\* line 19: targets
Targets == <<"db", "db-wal", "db-shm">>

TargetSet == {Targets[k] : k \in 1..Len(Targets)}

EmptyStore == [t \in TableSet |-> {}]

\* a store built by an earlier run: rows of source 1 and of a source that is gone
OldStore == [t \in TableSet |-> {<<1, 1>>, <<0, 1>>}]

\* the rows of source file k
RowsOf(k) == 1 + (k % 2)

SourceRows(k) == {<<k, j>> : j \in 1..RowsOf(k)}

\* import_single_csv_idempotent: insert the rows of the file, no duplicates
ImportRows(st, k) ==
    [st EXCEPT !["reactions"] = @ \cup SourceRows(k), !["measurements"] = @ \cup SourceRows(k)]

Min(a, b) == IF a < b THEN a ELSE b

\* line 113: math.ceil(total / chunk_size)
Ceil(n, d) == IF n % d = 0 THEN n \div d ELSE (n \div d) + 1

\* line 126: rcount or 0
OrZero(rc) == IF rc \in Nat THEN rc ELSE 0

\* before lines 155-158 ran no row count has been reported
NoSummary == [reactions |-> -1, measurements |-> -1]

\* no earlier run in this behaviour
NoRun == [ran |-> FALSE, store |-> EmptyStore, annot |-> {}, total |-> 0, impFail |-> {},
          valFail |-> {}]

\* a ledger value: the legacy bare boolean, or the record with validated, by, at
Legacy(b) == [form |-> "bool", validated |-> b, by |-> "n/a", at |-> "n/a"]

Dict(b, by, at) == [form |-> "dict", validated |-> b, by |-> by, at |-> at]

NoMeta == [form |-> "none", validated |-> FALSE, by |-> "n/a", at |-> "n/a"]

\* line 63: source is None
NoSource == [tno |-> 0, stem |-> 0, ext |-> "None"]

NoProbe == [csv |-> FALSE, tsv |-> FALSE]

CollectIdle ==
    /\ cpc = "idle"
    /\ ti = 1
    /\ tno = 0
    /\ nent = 0
    /\ ei = 1
    /\ raw = NoMeta
    /\ meta = NoMeta
    /\ probe = NoProbe
    /\ source = NoSource
    /\ sources = <<>>
    /\ clog = <<>>

BuildIdle ==
    /\ bpc = "idle"
    /\ btgt = 1
    /\ bui = 0
    /\ berr = NoErr
    /\ built = <<>>
    /\ removed = {}
    /\ bfs0 = [p \in SwapPaths |-> Absent]

\* an archive name: its components, whether it starts with "/" and ends with "/"
Name(parts, abs, dir) == [parts |-> parts, abs |-> abs, dir |-> dir]

NoName == Name(<<>>, FALSE, FALSE)

ZipIdle ==
    /\ zpc = "idle"
    /\ znames = <<>>
    /\ zi = 1
    /\ zerr = NoName
    /\ passed = <<>>
    /\ written = {}

\* the other entry points have not been called
AuxIdle == CollectIdle /\ BuildIdle /\ ZipIdle

RebuildIdle ==
    /\ rpc = "idle"
    /\ chunk_size = 1
    /\ dbf = [t \in TargetSet |-> FALSE]
    /\ corrupt = FALSE
    /\ store = EmptyStore
    /\ store0 = EmptyStore
    /\ con = "none"
    /\ pending = {}
    /\ tbl = 1
    /\ oe = [kind |-> "None", msg |-> {}]
    /\ tgt = 1
    /\ ui = 0
    /\ rerr = [kind |-> "None", step |-> "none", names |-> {}, msg |-> {}]
    /\ tasks = <<>>
    /\ total = 0
    /\ chunks = 0
    /\ processed = 0
    /\ start = 0
    /\ end = 0
    /\ batch_imported = 0
    /\ batch_validated_updates = 0
    /\ pos = 1
    /\ progress = <<>>
    /\ info = <<>>
    /\ procLog = <<>>
    /\ impOk = {}
    /\ impFail = {}
    /\ valCalled = {}
    /\ valFail = {}
    /\ summary = NoSummary
    /\ annot = {}
    /\ run1 = NoRun
    /\ AuxIdle

(***************************************************************************)
(* swap_live_db                                                            *)
(***************************************************************************)
ZeroCount == [s \in Steps |-> 0]

NoOutcome == [s \in Steps |-> "none"]

\* the file systems swap_live_db can be started on
SwapInitFs ==
    { f \in [SwapPaths -> {Absent, File({}), File({"a"}), File({"w"}), File({"s"}), File({"n"})}] :
        /\ f["live"] \in {Absent, File({"a"})}
        /\ f["live-wal"] \in {Absent, File({}), File({"w"})}
        /\ f["live-wal"].ex => f["live"].ex
        /\ f["live-shm"] = (IF f["live-wal"].ex THEN File({}) ELSE Absent)
        /\ f["bak"] \in {Absent, File({"s"})}
        /\ f["build"] \in {Absent, File({"n"})} }

InitSwap ==
    /\ fs \in SwapInitFs
    /\ swpc = "idle"
    /\ args = NoArgs
    /\ i = 0
    /\ last_err = "None"
    /\ err = NoErr
    /\ pre = fs
    /\ first = fs
    /\ ncalls = 0
    /\ att = ZeroCount
    /\ fails = ZeroCount
    /\ outcome = NoOutcome
    /\ RebuildIdle

StartCall(a) ==
    /\ args' = a
    /\ swpc' = "checkpoint"
    /\ i' = 0
    /\ last_err' = "None"
    /\ err' = NoErr
    /\ pre' = fs
    /\ ncalls' = ncalls + 1
    /\ att' = ZeroCount
    /\ fails' = ZeroCount
    /\ outcome' = NoOutcome
    /\ UNCHANGED <<fs, rebuildVars, auxVars>>

\* swap_live_db(build_path, live_path, backup, retries) is called
SwapCall ==
    /\ swpc = "idle"
    /\ \E b \in BOOLEAN, r \in 0..MaxRetries : StartCall([backup |-> b, retries |-> r])
    /\ first' = fs

\* the caller retries the whole swap with the same arguments after the
\* fatal lock error of the backup or of the promote step
SwapRetry ==
    /\ swpc = "raised"
    /\ err.kind = "PermissionError"
    /\ ncalls < MaxCalls
    /\ StartCall(args)
    /\ UNCHANGED first

\* lines 177-184: sqlite3.connect(live_path) creates an empty database file
\* when none exists; wal_checkpoint(TRUNCATE) merges the write-ahead log into
\* the main file; every exception is swallowed
Checkpoint ==
    /\ swpc = "checkpoint"
    /\ \E res \in {"connect_fails", "pragma_fails", "ok"} :
         LET opened == IF fs["live"].ex THEN fs ELSE [fs EXCEPT !["live"] = File({})]
             merged == [opened EXCEPT
                          !["live"] = File(opened["live"].data \cup opened["live-wal"].data),
                          !["live-wal"] = IF opened["live-wal"].ex THEN File({}) ELSE Absent]
         IN fs' = CASE res = "connect_fails" -> fs
                    [] res = "pragma_fails" -> opened
                    [] OTHER -> merged
    /\ swpc' = "sidecars"
    /\ UNCHANGED <<args, i, last_err, err, pre, first, ncalls, att, fails, outcome, rebuildVars, auxVars>>

\* lines 187-192: unlink the -wal and -shm sidecars, ignoring any failure
ClearSidecars ==
    /\ swpc = "sidecars"
    /\ \E okw \in BOOLEAN, oks \in BOOLEAN :
         fs' = [fs EXCEPT !["live-wal"] = IF okw THEN Absent ELSE @,
                          !["live-shm"] = IF oks THEN Absent ELSE @]
    /\ swpc' = "backup"
    /\ UNCHANGED <<args, i, last_err, err, pre, first, ncalls, att, fails, outcome, rebuildVars, auxVars>>

\* lines 195-203: decide whether to back up; remove a stale backup, ignoring
\* any failure
BackupPrepare ==
    /\ swpc = "backup"
    /\ IF args.backup /\ fs["live"].ex
       THEN /\ \E ok \in BOOLEAN :
                 fs' = [fs EXCEPT !["bak"] = IF ok THEN Absent ELSE @]
            /\ swpc' = "backup_try"
            /\ outcome' = [outcome EXCEPT !["backup"] = "running"]
       ELSE /\ fs' = fs
            /\ swpc' = "promote_try"
            /\ outcome' = [outcome EXCEPT !["promote"] = "running"]
    /\ i' = 0
    /\ last_err' = "None"
    /\ UNCHANGED <<args, err, pre, first, ncalls, att, fails, rebuildVars, auxVars>>

Raise(e) ==
    /\ swpc' = "raised"
    /\ err' = e

\* Path.replace: an atomic rename that overwrites the target
Replace(f, src, dst) == [f EXCEPT ![dst] = f[src], ![src] = Absent]

\* the outcomes of src.replace(dst)
ReplaceOutcomes(src) == IF fs[src].ex THEN {"ok", "in_use", "other"} ELSE {"other"}

\* lines 204-213: one iteration of the backup loop
BackupAttempt ==
    /\ swpc = "backup_try"
    /\ i < args.retries
    /\ att' = [att EXCEPT !["backup"] = @ + 1]
    /\ \E res \in ReplaceOutcomes("live") :
         CASE res = "ok" ->
                /\ fs' = Replace(fs, "live", "bak")
                /\ last_err' = "None"
                /\ swpc' = "promote_try"
                /\ i' = 0
                /\ outcome' = [outcome EXCEPT !["backup"] = "continued", !["promote"] = "running"]
                /\ UNCHANGED <<err, fails>>
           [] res = "in_use" ->
                /\ last_err' = "PermissionError"
                /\ i' = i + 1
                /\ fails' = [fails EXCEPT !["backup"] = @ + 1]
                /\ UNCHANGED <<fs, swpc, err, outcome>>
           [] OTHER ->
                /\ Raise([kind |-> "OSError", step |-> "backup", names |-> {}])
                /\ outcome' = [outcome EXCEPT !["backup"] = "other"]
                /\ UNCHANGED <<fs, i, last_err, fails>>
    /\ UNCHANGED <<args, pre, first, ncalls, rebuildVars, auxVars>>

\* lines 214-217: the backup loop ran out of iterations
BackupExhausted ==
    /\ swpc = "backup_try"
    /\ i >= args.retries
    /\ IF last_err # "None"
       THEN /\ Raise([kind |-> "PermissionError", step |-> "backup", names |-> {"live", "bak"}])
            /\ outcome' = [outcome EXCEPT !["backup"] = "fatal"]
            /\ UNCHANGED <<i, last_err>>
       ELSE /\ swpc' = "promote_try"
            /\ i' = 0
            /\ last_err' = "None"
            /\ outcome' = [outcome EXCEPT !["backup"] = "continued", !["promote"] = "running"]
            /\ UNCHANGED err
    /\ UNCHANGED <<fs, args, pre, first, ncalls, att, fails, rebuildVars, auxVars>>

\* lines 221-230: one iteration of the promote loop
PromoteAttempt ==
    /\ swpc = "promote_try"
    /\ i < args.retries
    /\ att' = [att EXCEPT !["promote"] = @ + 1]
    /\ \E res \in ReplaceOutcomes("build") :
         CASE res = "ok" ->
                /\ fs' = Replace(fs, "build", "live")
                /\ last_err' = "None"
                /\ swpc' = "done"
                /\ outcome' = [outcome EXCEPT !["promote"] = "continued"]
                /\ UNCHANGED <<i, err, fails>>
           [] res = "in_use" ->
                /\ last_err' = "PermissionError"
                /\ i' = i + 1
                /\ fails' = [fails EXCEPT !["promote"] = @ + 1]
                /\ UNCHANGED <<fs, swpc, err, outcome>>
           [] OTHER ->
                /\ Raise([kind |-> "OSError", step |-> "promote", names |-> {}])
                /\ outcome' = [outcome EXCEPT !["promote"] = "other"]
                /\ UNCHANGED <<fs, i, last_err, fails>>
    /\ UNCHANGED <<args, pre, first, ncalls, rebuildVars, auxVars>>

\* lines 231-234: the promote loop ran out of iterations
PromoteExhausted ==
    /\ swpc = "promote_try"
    /\ i >= args.retries
    /\ IF last_err # "None"
       THEN /\ Raise([kind |-> "PermissionError", step |-> "promote", names |-> {"build", "live"}])
            /\ outcome' = [outcome EXCEPT !["promote"] = "fatal"]
       ELSE /\ swpc' = "done"
            /\ outcome' = [outcome EXCEPT !["promote"] = "continued"]
            /\ UNCHANGED err
    /\ UNCHANGED <<fs, args, i, last_err, pre, first, ncalls, att, fails, rebuildVars, auxVars>>

NextSwap ==
    \/ SwapCall
    \/ SwapRetry
    \/ Checkpoint
    \/ ClearSidecars
    \/ BackupPrepare
    \/ BackupAttempt
    \/ BackupExhausted
    \/ PromoteAttempt
    \/ PromoteExhausted

SpecSwap == InitSwap /\ [][NextSwap]_vars

(***************************************************************************)
(* rebuild_db_from_validations: exceptions                                 *)
(***************************************************************************)
NoRErr == [kind |-> "None", step |-> "none", names |-> {}, msg |-> {}]

\* sqlite3 exceptions, the message as its set of lower-case words
ErrLocked == [kind |-> "OperationalError", msg |-> {"database", "is", "locked"}]

ErrMalformed == [kind |-> "DatabaseError", msg |-> {"database", "disk", "image", "is", "malformed"}]

ErrNotADb == [kind |-> "DatabaseError", msg |-> {"file", "is", "not", "a", "database"}]

ErrNoTable == [kind |-> "OperationalError", msg |-> {"no", "such", "table"}]

\* an exception that is no sqlite3.DatabaseError
ErrOther == [kind |-> "Exception", msg |-> {"unexpected"}]

\* sqlite3.OperationalError is a subclass of sqlite3.DatabaseError
IsDatabaseError(e) == e.kind \in {"DatabaseError", "OperationalError"}

\* what a statement on the store can raise
DbErrors == {ErrLocked, ErrNoTable, ErrOther} \cup (IF corrupt THEN {ErrMalformed, ErrNotADb} ELSE {})

\* variant: no error is recognised as corruption
IsCorruptionNever(e) == FALSE

\* lines 94-96: except sqlite3.DatabaseError, "malformed" in msg or "disk image" in msg
IsCorruption(e) ==
    /\ IsDatabaseError(e)
    /\ ("malformed" \in e.msg \/ {"disk", "image"} \subseteq e.msg)

\* variant: the retry bound is off by one (i < retries)
ShouldRetryOffByOne(e, k) ==
    /\ e.kind = "OperationalError"
    /\ "locked" \in e.msg
    /\ k < ClearRetries

\* lines 88-89: except sqlite3.OperationalError, "locked" in str(oe).lower() and i < retries - 1
ShouldRetry(e, k) ==
    /\ e.kind = "OperationalError"
    /\ "locked" \in e.msg
    /\ k < ClearRetries - 1

\* variant: the import error is re-raised
ImportErrorAbortsRun == TRUE

\* lines 127-129: except Exception: print, continue
ImportErrorAborts == FALSE

\* variant: after a failed import the validation setter is still called
ImportErrorCallsSetter == FALSE

\* line 129: continue
ImportErrorSkipsValidation == TRUE

\* variant: the failure of the index rebuild is re-raised
ReindexErrorAbortsRun == TRUE

\* lines 152-153: except Exception: print the warning
ReindexErrorAborts == FALSE

\* variant: after the fallback the Clear phase is run on the new store
AfterReopenClear == "clear"

\* lines 102-103: the new store is empty, the run goes on with collect_sources
AfterReopen == "collect"

\* a second run against the same ledgers and source files: the same files
\* fail, none else (raises says whether this attempt raises)
SameAsFirstRun(k, raises, failed1) == run1.ran => (raises <=> k \in failed1)

\* variant: end = start + chunk_size
BatchEndNoMin(st, cs, tot) == st + cs

\* line 119: end = min(start + chunk_size, total)
BatchEnd(st, cs, tot) == Min(st + cs, tot)

\* variant: try_unlink returns after the last attempt
ExhaustedReturns == "return"

\* lines 33-35: after the last attempt try_unlink raises
AfterExhausted == "raise"

(***************************************************************************)
(* rebuild_db_from_validations: the run                                    *)
(***************************************************************************)
InitRebuild ==
    /\ rpc = "idle"
    /\ chunk_size = 1
    /\ corrupt \in BOOLEAN
    /\ \E sidecars \in BOOLEAN :
         dbf = [t \in TargetSet |-> IF t = "db" THEN TRUE ELSE sidecars]
    /\ store \in {EmptyStore, OldStore}
    /\ store0 = store
    /\ con = "none"
    /\ pending = {}
    /\ tbl = 1
    /\ oe = [kind |-> "None", msg |-> {}]
    /\ tgt = 1
    /\ ui = 0
    /\ rerr = NoRErr
    /\ tasks = <<>>
    /\ total = 0
    /\ chunks = 0
    /\ processed = 0
    /\ start = 0
    /\ end = 0
    /\ batch_imported = 0
    /\ batch_validated_updates = 0
    /\ pos = 1
    /\ progress = <<>>
    /\ info = <<>>
    /\ procLog = <<>>
    /\ impOk = {}
    /\ impFail = {}
    /\ valCalled = {}
    /\ valFail = {}
    /\ summary = NoSummary
    /\ annot = {r[1] : r \in store["reactions"]}
    /\ run1 = NoRun
    /\ AuxIdle
    /\ i = 0
    /\ fs = [p \in SwapPaths |-> Absent]
    /\ swpc = "idle"
    /\ args = NoArgs
    /\ last_err = "None"
    /\ err = NoErr
    /\ pre = fs
    /\ first = fs
    /\ ncalls = 0
    /\ att = ZeroCount
    /\ fails = ZeroCount
    /\ outcome = NoOutcome

clearVars == <<pending, tbl, oe>>

removeVars == <<tgt, ui>>

batchVars == <<tasks, total, chunks, processed, start, end, batch_imported,
               batch_validated_updates, pos, progress>>

histVars == <<procLog, impOk, impFail, valCalled, valFail>>

runVars == <<summary, annot, run1>>

\* the run ends with exception e raised in phase ph
RaiseRun(e, ph, nm) ==
    /\ rpc' = "raised"
    /\ rerr' = [kind |-> e.kind, step |-> ph, names |-> nm, msg |-> e.msg]

\* lines 94-99: the corruption fallback starts
EnterFallback ==
    /\ rpc' = "remove"
    /\ tgt' = 1
    /\ ui' = 0
    /\ info' = Append(info, "WARN")
    /\ UNCHANGED rerr

\* lines 94-105: the outer handler
HandleDbError(e, ph) ==
    IF IsCorruption(e)
    THEN EnterFallback
    ELSE /\ RaiseRun(e, ph, {})
         /\ UNCHANGED <<tgt, ui, info>>

\* rebuild_db_from_validations(chunk_size) is called
RebuildCall ==
    /\ rpc = "idle"
    /\ \E b \in 1..MaxChunk : chunk_size' = b
    /\ rpc' = "open"
    /\ UNCHANGED <<dbf, corrupt, store, store0, con, clearVars, removeVars, rerr, batchVars,
                   info, histVars, runVars, i, swapVars, auxVars>>

\* lines 74-81: ensure_db(), busy_timeout, cursor
Open ==
    /\ rpc = "open"
    /\ \/ /\ con' = "open"
          /\ rpc' = "clear"
          /\ tbl' = 1
          /\ i' = 0
          /\ UNCHANGED <<rerr, tgt, ui, info>>
       \/ /\ \E e \in DbErrors : HandleDbError(e, "open")
          /\ UNCHANGED <<con, tbl, i>>
    /\ UNCHANGED <<chunk_size, dbf, corrupt, store, store0, pending, oe, batchVars, histVars, runVars,
                   swapVars, auxVars>>

\* the statement after the clear loop of one table: the loop of the next
\* table, or con.commit()
NextTable ==
    IF tbl < Len(Tables)
    THEN /\ tbl' = tbl + 1
         /\ i' = 0
         /\ rpc' = "clear"
    ELSE /\ rpc' = "commit"
         /\ UNCHANGED <<tbl, i>>

\* lines 82-92: one attempt of DELETE FROM tbl
ClearAttempt ==
    /\ rpc = "clear"
    /\ i < ClearRetries
    /\ \/ /\ pending' = pending \cup {Tables[tbl]}
          /\ NextTable
          /\ UNCHANGED <<oe, rerr, tgt, ui, info>>
       \/ \E e \in DbErrors :
            IF ShouldRetry(e, i)
            THEN /\ oe' = e
                 /\ IF i + 1 < ClearRetries
                    THEN /\ i' = i + 1
                         /\ UNCHANGED <<rpc, tbl>>
                    ELSE NextTable
                 /\ UNCHANGED <<pending, rerr, tgt, ui, info>>
            ELSE /\ oe' = IF e.kind = "OperationalError" THEN e ELSE oe
                 /\ HandleDbError(e, "clear")
                 /\ UNCHANGED <<pending, tbl, i>>
    /\ UNCHANGED <<chunk_size, dbf, corrupt, store, store0, con, batchVars, histVars, runVars, swapVars, auxVars>>

\* line 93: con.commit()
Commit ==
    /\ rpc = "commit"
    /\ \/ /\ store' = [t \in TableSet |-> IF t \in pending THEN {} ELSE store[t]]
          /\ annot' = IF "reactions" \in pending THEN {} ELSE annot
          /\ pending' = {}
          /\ rpc' = "collect"
          /\ UNCHANGED <<rerr, tgt, ui, info>>
       \/ /\ \E e \in DbErrors : HandleDbError(e, "commit")
          /\ UNCHANGED <<store, annot, pending>>
    /\ UNCHANGED <<chunk_size, dbf, corrupt, store0, con, tbl, oe, batchVars, histVars, summary,
                   run1, i, swapVars, auxVars>>

\* lines 36-37, 102: after one target, the next one; after the last, ensure_db()
NextTarget ==
    /\ ui' = 0
    /\ IF tgt < Len(Targets)
       THEN /\ tgt' = tgt + 1
            /\ UNCHANGED rpc
       ELSE /\ rpc' = "reopen"
            /\ UNCHANGED tgt

\* lines 21-22: a target that does not exist is skipped
RemoveSkip ==
    /\ rpc = "remove"
    /\ ~dbf[Targets[tgt]]
    /\ NextTarget
    /\ UNCHANGED <<chunk_size, dbf, corrupt, store, store0, con, clearVars, rerr, batchVars,
                   info, histVars, runVars, i, swapVars, auxVars>>

\* lines 100-101: raise RuntimeError(f"Failed to remove corrupted DB: {del_err}")
RaiseRemove(nm) ==
    /\ rpc' = "raised"
    /\ rerr' = [kind |-> "RuntimeError", step |-> "remove", names |-> nm,
                msg |-> {"failed", "to", "remove", "corrupted", "db"}]

\* lines 24-32: one attempt of p.unlink()
RemoveAttempt ==
    /\ rpc = "remove"
    /\ dbf[Targets[tgt]]
    /\ ui < RemoveRetries
    /\ \/ /\ dbf' = [dbf EXCEPT ![Targets[tgt]] = FALSE]
          /\ NextTarget
          /\ UNCHANGED rerr
       \/ /\ ui' = ui + 1
          /\ UNCHANGED <<dbf, rpc, tgt, rerr>>
       \/ /\ RaiseRemove({})
          /\ UNCHANGED <<dbf, tgt, ui>>
    /\ UNCHANGED <<chunk_size, corrupt, store, store0, con, clearVars, batchVars, info,
                   histVars, runVars, i, swapVars, auxVars>>

\* lines 33-35: every attempt failed with PermissionError
RemoveExhausted ==
    /\ rpc = "remove"
    /\ dbf[Targets[tgt]]
    /\ ui >= RemoveRetries
    /\ IF AfterExhausted = "raise"
       THEN /\ RaiseRemove({Targets[tgt]})
            /\ UNCHANGED <<tgt, ui>>
       ELSE /\ NextTarget
            /\ UNCHANGED rerr
    /\ UNCHANGED <<chunk_size, dbf, corrupt, store, store0, con, clearVars, batchVars, info,
                   histVars, runVars, i, swapVars, auxVars>>

\* line 102: con = ensure_db() creates a new, empty store
Reopen ==
    /\ rpc = "reopen"
    /\ con' = "fresh"
    /\ dbf' = [dbf EXCEPT !["db"] = TRUE]
    /\ store' = IF dbf["db"] THEN store ELSE EmptyStore
    /\ annot' = IF dbf["db"] THEN annot ELSE {}
    /\ corrupt' = (corrupt /\ dbf["db"])
    /\ pending' = {}
    /\ rpc' = AfterReopen
    /\ UNCHANGED <<chunk_size, store0, tbl, oe, removeVars, rerr, batchVars, info, histVars,
                   summary, run1, i, swapVars, auxVars>>

\* lines 107-115: collect_sources, the zero-task return, the chunk count
Collect ==
    /\ rpc = "collect"
    /\ \E n \in 0..MaxTasks :
         /\ run1.ran => n = run1.total
         /\ tasks' = [k \in 1..n |-> k]
         /\ total' = n
         /\ IF n = 0
            THEN /\ info' = Append(info, "INFO")
                 /\ rpc' = "returned"
                 /\ UNCHANGED <<chunks, processed, i>>
            ELSE /\ chunks' = Ceil(n, chunk_size)
                 /\ processed' = 0
                 /\ info' = Append(info, "START")
                 /\ i' = 0
                 /\ rpc' = "batch"
    /\ UNCHANGED <<chunk_size, dbf, corrupt, store, store0, con, clearVars, removeVars, rerr,
                   start, end, batch_imported, batch_validated_updates, pos, progress,
                   histVars, runVars, swapVars, auxVars>>

\* lines 117-122: the next batch
BatchStart ==
    /\ rpc = "batch"
    /\ i < chunks
    /\ start' = i * chunk_size
    /\ end' = BatchEnd(i * chunk_size, chunk_size, total)
    /\ pos' = i * chunk_size + 1
    /\ batch_imported' = 0
    /\ batch_validated_updates' = 0
    /\ rpc' = "import"
    /\ UNCHANGED <<chunk_size, dbf, corrupt, store, store0, con, clearVars, removeVars, rerr,
                   tasks, total, chunks, processed, progress, info, histVars, runVars, i, swapVars, auxVars>>

\* tasks[start:end] has a task at position pos
InBatch == pos <= Min(end, total)

\* lines 123-129: import_single_csv_idempotent(source, tno)
ImportTask ==
    /\ rpc = "import"
    /\ InBatch
    /\ procLog' = Append(procLog, tasks[pos])
    /\ \/ /\ SameAsFirstRun(tasks[pos], FALSE, run1.impFail)
          /\ store' = ImportRows(store, tasks[pos])
          /\ batch_imported' = batch_imported + OrZero(RowsOf(tasks[pos]))
          /\ impOk' = impOk \cup {tasks[pos]}
          /\ rpc' = "validate"
          /\ UNCHANGED <<impFail, pos, info, rerr>>
       \/ /\ SameAsFirstRun(tasks[pos], TRUE, run1.impFail)
          /\ impFail' = impFail \cup {tasks[pos]}
          /\ info' = Append(info, "ERR_IMPORT")
          /\ IF ImportErrorAborts
             THEN /\ RaiseRun(ErrOther, "import", {})
                  /\ UNCHANGED pos
             ELSE IF ImportErrorSkipsValidation
             THEN /\ pos' = pos + 1
                  /\ UNCHANGED <<rpc, rerr>>
             ELSE /\ rpc' = "validate"
                  /\ UNCHANGED <<pos, rerr>>
          /\ UNCHANGED <<store, batch_imported, impOk>>
    /\ UNCHANGED <<chunk_size, dbf, corrupt, store0, con, clearVars, removeVars, tasks, total,
                   chunks, processed, start, end, batch_validated_updates, progress,
                   valCalled, valFail, runVars, i, swapVars, auxVars>>

\* lines 130-140: set_validated_by_source(con, str(source), ...)
ValidateTask ==
    /\ rpc = "validate"
    /\ valCalled' = valCalled \cup {tasks[pos]}
    /\ \/ /\ SameAsFirstRun(tasks[pos], FALSE, run1.valFail)
          /\ batch_validated_updates' = batch_validated_updates + RowsOf(tasks[pos])
          /\ annot' = annot \cup {tasks[pos]}
          /\ UNCHANGED <<valFail, info>>
       \/ /\ SameAsFirstRun(tasks[pos], TRUE, run1.valFail)
          /\ valFail' = valFail \cup {tasks[pos]}
          /\ info' = Append(info, "ERR_VALIDATE")
          /\ UNCHANGED <<batch_validated_updates, annot>>
    /\ pos' = pos + 1
    /\ rpc' = "import"
    /\ UNCHANGED <<chunk_size, dbf, corrupt, store, store0, con, clearVars, removeVars, rerr,
                   tasks, total, chunks, processed, start, end, batch_imported, progress,
                   procLog, impOk, impFail, summary, run1, i, swapVars, auxVars>>

\* lines 141-145: the PROGRESS line of the batch
BatchDone ==
    /\ rpc = "import"
    /\ ~InBatch
    /\ processed' = end
    /\ progress' = Append(progress, [processed |-> end, total |-> total,
                                     batch_imported |-> batch_imported,
                                     batch_validated_updates |-> batch_validated_updates])
    /\ i' = i + 1
    /\ rpc' = "batch"
    /\ UNCHANGED <<chunk_size, dbf, corrupt, store, store0, con, clearVars, removeVars, rerr,
                   tasks, total, chunks, start, end, batch_imported, batch_validated_updates,
                   pos, info, histVars, runVars, swapVars, auxVars>>

\* lines 147-153: rebuild of the full-text index, a failure is only logged
Reindex ==
    /\ rpc = "batch"
    /\ i >= chunks
    /\ \/ /\ store' = [store EXCEPT !["reactions_fts"] = store["reactions"]]
          /\ info' = Append(info, "FTS")
          /\ rpc' = "summary"
          /\ UNCHANGED rerr
       \/ /\ IF ReindexErrorAborts
             THEN /\ RaiseRun(ErrOther, "reindex", {})
                  /\ UNCHANGED info
             ELSE /\ info' = Append(info, "FTS_WARN")
                  /\ rpc' = "summary"
                  /\ UNCHANGED rerr
          /\ UNCHANGED store
    /\ UNCHANGED <<chunk_size, dbf, corrupt, store0, con, clearVars, removeVars,
                   batchVars, histVars, runVars, i, swapVars, auxVars>>

\* lines 155-158: the DONE line
Summary ==
    /\ rpc = "summary"
    /\ summary' = [reactions |-> Cardinality(store["reactions"]),
                    measurements |-> Cardinality(store["measurements"])]
    /\ info' = Append(info, "DONE")
    /\ rpc' = "done"
    /\ UNCHANGED <<chunk_size, dbf, corrupt, store, store0, con, clearVars, removeVars, rerr,
                   batchVars, histVars, annot, run1, i, swapVars, auxVars>>

NextRebuild ==
    \/ RebuildCall
    \/ Open
    \/ ClearAttempt
    \/ Commit
    \/ RemoveSkip
    \/ RemoveAttempt
    \/ RemoveExhausted
    \/ Reopen
    \/ Collect
    \/ BatchStart
    \/ ImportTask
    \/ ValidateTask
    \/ BatchDone
    \/ Reindex
    \/ Summary

SpecRebuild == InitRebuild /\ [][NextRebuild]_vars

\* most Build Tasks of the runs whose termination is checked
MaxFairTasks == 3

\* a step of a run of at most MaxFairTasks tasks
FairStep == NextRebuild /\ total' <= MaxFairTasks

\* the interpreter runs the function to its end: a step that can be taken is taken
SpecRebuildFair == InitRebuild /\ [][FairStep]_vars /\ WF_vars(FairStep)

\* a second run is explored after a first run of at most this many tasks
MaxRerunTasks == 2

\* rebuild_db_from_validations is called a second time, with the same
\* chunk_size, after the first run ended; the locals of the first call are gone
Rerun ==
    /\ rpc \in {"done", "returned"}
    /\ ~run1.ran
    /\ total <= MaxRerunTasks
    /\ run1' = [ran |-> TRUE, store |-> store, annot |-> annot, total |-> total,
                impFail |-> impFail, valFail |-> valFail]
    /\ rpc' = "open"
    /\ store0' = store
    /\ con' = "none"
    /\ pending' = {}
    /\ tbl' = 1
    /\ oe' = [kind |-> "None", msg |-> {}]
    /\ tgt' = 1
    /\ ui' = 0
    /\ rerr' = NoRErr
    /\ tasks' = <<>>
    /\ total' = 0
    /\ chunks' = 0
    /\ processed' = 0
    /\ start' = 0
    /\ end' = 0
    /\ batch_imported' = 0
    /\ batch_validated_updates' = 0
    /\ pos' = 1
    /\ progress' = <<>>
    /\ info' = <<>>
    /\ procLog' = <<>>
    /\ impOk' = {}
    /\ impFail' = {}
    /\ valCalled' = {}
    /\ valFail' = {}
    /\ summary' = NoSummary
    /\ i' = 0
    /\ UNCHANGED <<chunk_size, dbf, corrupt, store, annot, swapVars, auxVars>>

NextTwice ==
    \/ NextRebuild
    \/ Rerun

SpecTwice == InitRebuild /\ [][NextTwice]_vars

(***************************************************************************)
(* collect_sources(tables)                                                 *)
(***************************************************************************)
\* most entries of one ledger
MaxEntries == 2

\* the tables argument: table names as the pieces str.replace looks at; the
\* names of config.AVAILABLE_TABLES and one name that holds no number
InputTables == << <<"table", "5">>, <<"notes">>, <<"table", "6">> >>

\* the digits int() accepts in this model
Digits == ("5" :> 5) @@ ("6" :> 6)

\* line 44: t.replace("table", "")
StripTable(t) == SelectSeq(t, LAMBDA x : x # "table")

\* line 44: int(...) returns
ParsesAsInt(t) == Len(StripTable(t)) = 1 /\ StripTable(t)[1] \in DOMAIN Digits

TableNumber(t) == Digits[StripTable(t)[1]]

\* the values a ledger can hold for an image
MetaForms == {Legacy(TRUE), Legacy(FALSE), Dict(TRUE, "None", "None"),
              Dict(FALSE, "None", "None"), Dict(TRUE, "u", "t")}

\* variant: the legacy value is normalised to validated = True
NormaliseAsValidated(m) ==
    IF m.form = "bool" THEN Dict(TRUE, "None", "None") ELSE m

\* lines 58-59: if isinstance(meta, bool): meta = {"validated": bool(meta), "by": None, "at": None}
Normalise(m) ==
    IF m.form = "bool" THEN Dict(m.validated, "None", "None") ELSE m

\* variant: the .tsv file is not looked for
ResolveCsvOnly(t, stem, pr) ==
    IF pr.csv THEN [tno |-> t, stem |-> stem, ext |-> "csv"] ELSE NoSource

\* line 63: csv_path if csv_path.exists() else (tsv_path if tsv_path.exists() else None)
Resolve(t, stem, pr) ==
    IF pr.csv THEN [tno |-> t, stem |-> stem, ext |-> "csv"]
    ELSE IF pr.tsv THEN [tno |-> t, stem |-> stem, ext |-> "tsv"]
    ELSE NoSource

\* variant: a ledger that cannot be loaded ends the collection
LoadFailureReturns == "return"

\* lines 53-55: except Exception: print the warning, continue
AfterLoadFailure == "continue"

\* lines 131-137: the arguments of set_validated_by_source
ValidationArgs(m) == [validated |-> m.validated, by |-> m.by, at |-> m.at]

InitCollect ==
    /\ InitRebuild
    /\ store = EmptyStore
    /\ ~corrupt
    /\ ~dbf["db-wal"]

\* what collect_sources has no access to
notCollectVars == <<swapVars, rebuildVars, i, buildVars, zipVars>>

\* collect_sources(tables) is called
CollectCall ==
    /\ cpc = "idle"
    /\ cpc' = "table"
    /\ ti' = 1
    /\ sources' = <<>>
    /\ UNCHANGED <<tno, nent, ei, raw, meta, probe, source, clog, notCollectVars>>

\* lines 43-46: the table name holds no number, the table is passed over
TableBadName ==
    /\ cpc = "table"
    /\ ti <= Len(InputTables)
    /\ ~ParsesAsInt(InputTables[ti])
    /\ ti' = ti + 1
    /\ UNCHANGED <<cpc, tno, nent, ei, raw, meta, probe, source, sources, clog, notCollectVars>>

\* lines 43-55: the ledger of the table is absent, cannot be loaded, or is
\* loaded with n entries
TableLedger ==
    /\ cpc = "table"
    /\ ti <= Len(InputTables)
    /\ ParsesAsInt(InputTables[ti])
    /\ tno' = TableNumber(InputTables[ti])
    /\ \/ /\ clog' = Append(clog, [tag |-> "SKIP", tno |-> tno', stem |-> 0])
          /\ ti' = ti + 1
          /\ UNCHANGED <<cpc, nent, ei>>
       \/ /\ clog' = Append(clog, [tag |-> "WARN", tno |-> tno', stem |-> 0])
          /\ IF AfterLoadFailure = "continue"
             THEN /\ ti' = ti + 1
                  /\ UNCHANGED cpc
             ELSE /\ cpc' = "done"
                  /\ UNCHANGED ti
          /\ UNCHANGED <<nent, ei>>
       \/ /\ \E n \in 0..MaxEntries : nent' = n
          /\ ei' = 1
          /\ cpc' = "entry"
          /\ UNCHANGED <<ti, clog>>
    /\ UNCHANGED <<raw, meta, probe, source, sources, notCollectVars>>

\* lines 56-63: the next entry of the ledger, its value normalised, its
\* source file looked for
EntryResolve ==
    /\ cpc = "entry"
    /\ ei <= nent
    /\ \E m \in MetaForms, c \in BOOLEAN, t \in BOOLEAN :
         /\ raw' = m
         /\ meta' = Normalise(m)
         /\ probe' = [csv |-> c, tsv |-> t]
         /\ source' = Resolve(tno, ei, [csv |-> c, tsv |-> t])
    /\ cpc' = "emit"
    /\ UNCHANGED <<ti, tno, nent, ei, sources, clog, notCollectVars>>

\* lines 64-67: the MISS line, or the Build Task is appended; the locals of
\* the iteration are not read again
EntryEmit ==
    /\ cpc = "emit"
    /\ IF source = NoSource
       THEN /\ clog' = Append(clog, [tag |-> "MISS", tno |-> tno, stem |-> ei])
            /\ UNCHANGED sources
       ELSE /\ sources' = Append(sources, [tno |-> tno, source |-> source, meta |-> meta])
            /\ UNCHANGED clog
    /\ ei' = ei + 1
    /\ cpc' = "entry"
    /\ raw' = NoMeta
    /\ meta' = NoMeta
    /\ probe' = NoProbe
    /\ source' = NoSource
    /\ UNCHANGED <<ti, tno, nent, notCollectVars>>

\* line 56: the ledger has no further entry
LedgerEnd ==
    /\ cpc = "entry"
    /\ ei > nent
    /\ ti' = ti + 1
    /\ cpc' = "table"
    /\ UNCHANGED <<tno, nent, ei, raw, meta, probe, source, sources, clog, notCollectVars>>

\* line 68: return sources
CollectReturn ==
    /\ cpc = "table"
    /\ ti > Len(InputTables)
    /\ cpc' = "done"
    /\ UNCHANGED <<ti, tno, nent, ei, raw, meta, probe, source, sources, clog, notCollectVars>>

NextCollect ==
    \/ CollectCall
    \/ TableBadName
    \/ TableLedger
    \/ EntryResolve
    \/ EntryEmit
    \/ LedgerEnd
    \/ CollectReturn

SpecCollect == InitCollect /\ [][NextCollect]_vars

(***************************************************************************)
(* build_db_offline_fast(build_path)                                       *)
(***************************************************************************)
\* the paths of the live store, of its backup and of the build store
BuildPaths == SwapPaths \cup {"build-wal", "build-shm"}

LivePaths == {"live", "live-wal", "live-shm"}

\* line 19: Path(str(db_path) + "-wal"), Path(str(db_path) + "-shm")
WalOf == ("live" :> "live-wal") @@ ("build" :> "build-wal")

ShmOf == ("live" :> "live-shm") @@ ("build" :> "build-shm")

\* line 19: targets = [db_path, db_path-wal, db_path-shm]
TargetsOf(p) == <<p, WalOf[p], ShmOf[p]>>

\* variant: the files of DB_FILE are removed, as the rebuild's fallback does
RemoveBaseLive == "live"

\* line 167: _safe_remove_db_files(build_path)
RemoveBase == "build"

\* line 169: _fast_build(build_path)
BuilderArg == "build"

\* the file systems build_db_offline_fast can be started on
BuildInitFs ==
    { f \in [BuildPaths -> {Absent, File({}), File({"a"}), File({"w"}), File({"s"}), File({"n"})}] :
        /\ f["live"] \in {Absent, File({"a"})}
        /\ f["live-wal"] \in {Absent, File({}), File({"w"})}
        /\ f["live-wal"].ex => f["live"].ex
        /\ f["live-shm"] = (IF f["live-wal"].ex THEN File({}) ELSE Absent)
        /\ f["bak"] \in {Absent, File({"s"})}
        /\ f["build"] \in {Absent, File({}), File({"n"})}
        /\ f["build-wal"] \in {Absent, File({"w"})}
        /\ f["build-shm"] \in {Absent, File({})} }

InitBuild ==
    /\ fs \in BuildInitFs
    /\ swpc = "idle"
    /\ args = NoArgs
    /\ i = 0
    /\ last_err = "None"
    /\ err = NoErr
    /\ pre = [p \in SwapPaths |-> fs[p]]
    /\ first = pre
    /\ ncalls = 0
    /\ att = ZeroCount
    /\ fails = ZeroCount
    /\ outcome = NoOutcome
    /\ RebuildIdle

\* what build_db_offline_fast has no access to
notBuildVars == <<swpc, args, i, last_err, err, pre, first, ncalls, att, fails, outcome,
                  rebuildVars, collectVars, zipVars>>

\* build_db_offline_fast(build_path) is called
BuildCall ==
    /\ bpc = "idle"
    /\ bpc' = "check"
    /\ bfs0' = fs
    /\ UNCHANGED <<fs, btgt, bui, berr, built, removed>>
    /\ UNCHANGED notBuildVars

\* line 166: if build_path.exists()
BuildCheck ==
    /\ bpc = "check"
    /\ IF fs["build"].ex
       THEN /\ bpc' = "remove"
            /\ btgt' = 1
            /\ bui' = 0
       ELSE /\ bpc' = "build"
            /\ UNCHANGED <<btgt, bui>>
    /\ UNCHANGED <<fs, berr, built, removed, bfs0>>
    /\ UNCHANGED notBuildVars

\* lines 36-37, 169: after one target the next one, after the last the builder
BuildNextTarget ==
    /\ bui' = 0
    /\ IF btgt < Len(TargetsOf(RemoveBase))
       THEN /\ btgt' = btgt + 1
            /\ UNCHANGED bpc
       ELSE /\ bpc' = "build"
            /\ UNCHANGED btgt

\* lines 21-22: a target that does not exist is skipped
BuildRemoveSkip ==
    /\ bpc = "remove"
    /\ ~fs[TargetsOf(RemoveBase)[btgt]].ex
    /\ BuildNextTarget
    /\ UNCHANGED <<fs, berr, built, removed, bfs0>>
    /\ UNCHANGED notBuildVars

\* lines 24-32: one attempt of p.unlink(): done, PermissionError, other error
BuildRemoveAttempt ==
    /\ bpc = "remove"
    /\ fs[TargetsOf(RemoveBase)[btgt]].ex
    /\ bui < RemoveRetries
    /\ \/ /\ fs' = [fs EXCEPT ![TargetsOf(RemoveBase)[btgt]] = Absent]
          /\ removed' = removed \cup {TargetsOf(RemoveBase)[btgt]}
          /\ BuildNextTarget
          /\ UNCHANGED berr
       \/ /\ bui' = bui + 1
          /\ UNCHANGED <<fs, removed, bpc, btgt, berr>>
       \/ /\ bpc' = "raised"
          /\ berr' = [kind |-> "OSError", step |-> "remove",
                      names |-> {TargetsOf(RemoveBase)[btgt]}]
          /\ UNCHANGED <<fs, removed, btgt, bui>>
    /\ UNCHANGED <<built, bfs0>>
    /\ UNCHANGED notBuildVars

\* lines 33-35: every attempt failed with PermissionError
BuildRemoveExhausted ==
    /\ bpc = "remove"
    /\ fs[TargetsOf(RemoveBase)[btgt]].ex
    /\ bui >= RemoveRetries
    /\ IF AfterExhausted = "raise"
       THEN /\ bpc' = "raised"
            /\ berr' = [kind |-> "PermissionError", step |-> "remove",
                        names |-> {TargetsOf(RemoveBase)[btgt]}]
            /\ UNCHANGED <<btgt, bui>>
       ELSE /\ BuildNextTarget
            /\ UNCHANGED berr
    /\ UNCHANGED <<fs, built, removed, bfs0>>
    /\ UNCHANGED notBuildVars

\* line 169: the builder writes a new store at the path it is given, and may
\* leave sidecars next to it; a builder that raises leaves what it wrote
FastBuild ==
    /\ bpc = "build"
    /\ built' = Append(built, BuilderArg)
    /\ \/ /\ \E w \in {Absent, File({})} :
               fs' = [fs EXCEPT ![BuilderArg] = File({"n"}), ![WalOf[BuilderArg]] = w,
                                ![ShmOf[BuilderArg]] = w]
          /\ bpc' = "done"
          /\ UNCHANGED berr
       \/ /\ fs' = [fs EXCEPT ![BuilderArg] = File({})]
          /\ bpc' = "raised"
          /\ berr' = [kind |-> "Exception", step |-> "build", names |-> {BuilderArg}]
    /\ UNCHANGED <<btgt, bui, removed, bfs0>>
    /\ UNCHANGED notBuildVars

NextBuild ==
    \/ BuildCall
    \/ BuildCheck
    \/ BuildRemoveSkip
    \/ BuildRemoveAttempt
    \/ BuildRemoveExhausted
    \/ FastBuild

SpecBuild == InitBuild /\ [][NextBuild]_vars

(***************************************************************************)
(* extract_zip_safely(zip_bytes, dest_dir)                                 *)
(*   (src/app/pages/99_Admin_Upload_Data.py)                               *)
(***************************************************************************)
\* most entries of an uploaded archive
MaxNames == 2

\* the names an archive is made of: a.csv, d/a.csv, ../a.csv, ../.h, .h,
\* ../d/, d/../a.csv, /a.csv, d/
ZipNames ==
    { Name(<<"a.csv">>, FALSE, FALSE), Name(<<"d", "a.csv">>, FALSE, FALSE),
      Name(<<"..", "a.csv">>, FALSE, FALSE), Name(<<"..", ".h">>, FALSE, FALSE),
      Name(<<".h">>, FALSE, FALSE), Name(<<"..", "d">>, FALSE, TRUE),
      Name(<<"d", "..", "a.csv">>, FALSE, FALSE), Name(<<"a.csv">>, TRUE, FALSE),
      Name(<<"d">>, FALSE, TRUE) }

\* the archives of one to MaxNames entries
Archives == UNION {[1..n -> ZipNames] : n \in 1..MaxNames}

\* str(BASE_DIR) as an absolute path
DestDir == <<"srv", "data">>

\* the components that start with "."
DotComponents == {".h", ".", ".."}

\* os.path.basename(name): what follows the last "/"
Basename(n) == IF n.dir \/ n.parts = <<>> THEN "" ELSE n.parts[Len(n.parts)]

\* line 58: name.endswith("/") or os.path.basename(name).startswith(".")
Skipped(n) == n.dir \/ Basename(n) \in DotComponents

\* line 61: os.path.join(dest_dir, name); an absolute name replaces dest_dir
Join(dest, n) == IF n.abs THEN n.parts ELSE dest \o n.parts

RECURSIVE Normalised(_, _)
\* os.path.abspath of an absolute path: "." is dropped, ".." drops the
\* component before it
Normalised(p, stack) ==
    IF p = <<>> THEN stack
    ELSE IF Head(p) = "." THEN Normalised(Tail(p), stack)
    ELSE IF Head(p) = ".."
         THEN Normalised(Tail(p), IF stack = <<>> THEN <<>> ELSE SubSeq(stack, 1, Len(stack) - 1))
    ELSE Normalised(Tail(p), Append(stack, Head(p)))

Abspath(p) == Normalised(p, <<>>)

RECURSIVE CommonPath(_, _)
\* os.path.commonpath of two absolute paths: their longest common prefix
CommonPath(a, b) ==
    IF a = <<>> \/ b = <<>> \/ Head(a) # Head(b) THEN <<>>
    ELSE <<Head(a)>> \o CommonPath(Tail(a), Tail(b))

\* lines 45-49: is_within_base(base, target)
IsWithinBase(base, target) ==
    CommonPath(Abspath(base), Abspath(base)) = CommonPath(Abspath(base), Abspath(target))

\* line 66: ZipFile.extractall writes a member below the directory it is
\* given, after dropping a leading "/" and every ".." and "." component
ExtractDest(dest, n) == dest \o SelectSeq(n.parts, LAMBDA c : c \notin {".", ".."})

\* what extract_zip_safely has no access to
notZipVars == <<swapVars, rebuildVars, i, collectVars, buildVars>>

InitZip ==
    /\ InitRebuild
    /\ store = EmptyStore
    /\ ~corrupt
    /\ ~dbf["db-wal"]

\* line 311: extract_zip_safely(uploaded_file.getvalue(), str(BASE_DIR))
ZipCall ==
    /\ zpc = "idle"
    /\ znames' \in Archives
    /\ zi' = 1
    /\ zpc' = "validate"
    /\ UNCHANGED <<zerr, passed, written, notZipVars>>

\* lines 56-59: a directory or a dot-file is not validated
ZipSkip ==
    /\ zpc = "validate"
    /\ zi <= Len(znames)
    /\ Skipped(znames[zi])
    /\ zi' = zi + 1
    /\ UNCHANGED <<zpc, znames, zerr, passed, written, notZipVars>>

\* lines 61-63: the joined destination is checked, ValueError if it is outside
ZipValidate ==
    /\ zpc = "validate"
    /\ zi <= Len(znames)
    /\ ~Skipped(znames[zi])
    /\ IF IsWithinBase(DestDir, Join(DestDir, znames[zi]))
       THEN /\ zi' = zi + 1
            /\ UNCHANGED <<zpc, zerr>>
       ELSE /\ zpc' = "raised"
            /\ zerr' = znames[zi]
            /\ UNCHANGED zi
    /\ UNCHANGED <<znames, passed, written, notZipVars>>

\* line 66: zf.extractall(dest_dir) extracts every entry of the archive
ZipExtractAll ==
    /\ zpc = "validate"
    /\ zi > Len(znames)
    /\ passed' = znames
    /\ written' = {ExtractDest(DestDir, znames[k]) : k \in 1..Len(znames)}
    /\ zpc' = "done"
    /\ UNCHANGED <<znames, zi, zerr, notZipVars>>

NextZip ==
    \/ ZipCall
    \/ ZipSkip
    \/ ZipValidate
    \/ ZipExtractAll

SpecZip == InitZip /\ [][NextZip]_vars

(***************************************************************************)
(* Claims about swap_live_db                                               *)
(***************************************************************************)
\* what a store holds: its main file, or its main file merged with its log
StoreContents(f, main, wal) == {f[main].data, f[main].data \cup f[wal].data}

\* C1: during a call of swap_live_db that started with a file at the live
\* path, a reader that looks at the live path at any step finds a file there,
\* holding the old store or the new store
C1_ReaderAlwaysFindsLiveFile ==
    (swpc # "idle" /\ ncalls = 1 /\ pre["live"].ex) =>
        /\ fs["live"].ex
        /\ fs["live"].data \in StoreContents(pre, "live", "live-wal") \cup {pre["build"].data}

\* C2: when swap_live_db returns without raising, the live path holds what
\* the build file held before the call, the build path holds no file, and if
\* a backup was requested and a live file existed, the backup path holds what
\* the live store held before the call
C2_SwapPostcondition ==
    swpc = "done" =>
        /\ pre["build"].ex
        /\ fs["live"] = pre["build"]
        /\ ~fs["build"].ex
        /\ (args.backup /\ pre["live"].ex) =>
              /\ fs["bak"].ex
              /\ fs["bak"].data \in StoreContents(pre, "live", "live-wal")

\* C3: after a call with backup=True that aborted with the fatal lock error
\* of the backup or of the promote step, a second call with the same
\* arguments that meets no lock ends with the build file's content at the
\* live path and the first call's live content at the backup path
C3_RetryAfterLockAbort ==
    (swpc = "done" /\ ncalls = 2 /\ args.backup /\ first["live"].ex
        /\ fails["backup"] = 0 /\ fails["promote"] = 0) =>
        /\ fs["live"] = first["build"]
        /\ fs["bak"].ex
        /\ fs["bak"].data \in StoreContents(first, "live", "live-wal")

\* C4: each rename is attempted at most `retries` times; a step raises the
\* fatal PermissionError exactly when its loop ended with every attempt
\* having failed with file-in-use; a success after such failures lets the
\* swap go on; the backup error names the live file, the promote error names
\* the build and the live path
C4_RetryDiscipline ==
    \A s \in Steps :
        /\ att[s] <= args.retries
        /\ (outcome[s] = "fatal") <=>
              (outcome[s] \notin {"none", "running"} /\ fails[s] = att[s])
        /\ (outcome[s] = "continued" /\ fails[s] > 0) => (err.step # s)
        /\ (outcome[s] = "fatal") =>
              /\ err.kind = "PermissionError"
              /\ err.step = s
              /\ err.names = (IF s = "backup" THEN {"live", "bak"} ELSE {"build", "live"})

(***************************************************************************)
(* Claims about rebuild_db_from_validations                                *)
(***************************************************************************)
RECURSIVE SumRows(_)
\* the rows of the source files of the tasks in S
SumRows(S) == IF S = {} THEN 0 ELSE LET k == CHOOSE x \in S : TRUE IN RowsOf(k) + SumRows(S \ {k})

RECURSIVE SumImported(_)
\* the rows the PROGRESS lines report as imported
SumImported(p) == IF p = <<>> THEN 0 ELSE p[1].batch_imported + SumImported(Tail(p))

TaskSet == {tasks[k] : k \in 1..Len(tasks)}

ImportOver == rpc \in {"summary", "done"} \/ (rpc = "batch" /\ i >= chunks)

\* C5: an import that raises does not end the run; every task whose import
\* did not raise is imported and handed to the validation setter, the run
\* reaches Reindex and Summary, and the rows imported are the sum over the
\* tasks that did not fail
C5_PartialFailureIsolation ==
    /\ (rpc = "raised") => (impFail = {} /\ procLog = <<>>)
    /\ ImportOver =>
          /\ impOk = TaskSet \ impFail
          /\ valCalled = impOk
          /\ SumImported(progress) = SumRows(TaskSet \ impFail)
          /\ Cardinality(store["reactions"]) = SumRows(TaskSet \ impFail)
          /\ Cardinality(store["measurements"]) = SumRows(TaskSet \ impFail)

C5_Witness ==
    /\ rpc = "done"
    /\ total = 5
    /\ impFail = {3}
    /\ impOk = {1, 2, 4, 5}
    /\ valCalled = {1, 2, 4, 5}
    /\ SumImported(progress) = RowsOf(1) + RowsOf(2) + RowsOf(4) + RowsOf(5)

\* the least c with c * d >= n
CeilSpec(n, d) == CHOOSE c \in 0..n : c * d >= n /\ (c = 0 \/ (c - 1) * d < n)

LastProcessed == IF progress = <<>> THEN 0 ELSE progress[Len(progress)].processed

\* C6: the tasks are processed once each, in collector order, in ceil(N/b)
\* contiguous batches; one PROGRESS line follows each batch, line j reports
\* min(j*b, N) processed tasks, failed ones included, the counts grow
\* strictly and the last one is N
C6_BatchesAndProgress ==
    /\ \A j \in 1..Len(progress) : progress[j].processed = Min(j * chunk_size, total)
    /\ \A j \in 1..(Len(progress) - 1) : progress[j].processed < progress[j + 1].processed
    /\ Len(procLog) <= Len(tasks)
    /\ \A k \in 1..Len(procLog) : procLog[k] = tasks[k]
    /\ LastProcessed <= Len(procLog)
    /\ Len(procLog) <= Min(LastProcessed + chunk_size, total)
    /\ (rpc = "batch" /\ progress # <<>>) => Len(procLog) = LastProcessed
    /\ (rpc \in {"batch", "import", "validate"}) => Len(progress) = i
    /\ rpc \in {"summary", "done"} =>
          /\ Len(progress) = CeilSpec(total, chunk_size)
          /\ LastProcessed = total
          /\ procLog = tasks

C6_Witness ==
    /\ rpc = "done"
    /\ total = 5
    /\ chunk_size = 2
    /\ Len(progress) = 3
    /\ progress[1].processed = 2
    /\ progress[2].processed = 4
    /\ progress[3].processed = 5
    /\ impFail = {3}

\* the corruption fallback was entered
InFallback == \E k \in 1..Len(info) : info[k] = "WARN"

\* C7: with zero Build Tasks the run (here: on an intact store, without the
\* corruption fallback) prints the informational line and returns with the
\* rows of every managed table as they were before the run
C7_ZeroTasksNoOp ==
    (rpc = "returned" /\ ~InFallback) =>
        /\ info[Len(info)] = "INFO"
        /\ store = store0

ImportedRows == UNION {SourceRows(k) : k \in impOk}

\* the store the fallback leaves: a new file without sidecars, holding
\* nothing but the rows imported by this run
FreshStoreInUse ==
    /\ con = "fresh"
    /\ ~corrupt
    /\ dbf = [t \in TargetSet |-> t = "db"]
    /\ store["reactions"] = ImportedRows
    /\ store["measurements"] = ImportedRows
    /\ store["references_map"] = {}
    /\ store["reactions_fts"] \subseteq ImportedRows

\* C8 as stated: a corruption error raised by the open or the clear never
\* aborts the run: the store file and its sidecars are removed, a fresh empty
\* store is opened and every collected task is imported into it
C8_CorruptionNeverAborts ==
    /\ (rpc = "raised") => (~InFallback /\ "malformed" \notin rerr.msg /\ "disk" \notin rerr.msg)
    /\ (InFallback /\ rpc \notin {"remove", "reopen", "raised"}) => FreshStoreInUse
    /\ (InFallback /\ rpc \in {"summary", "done"}) => procLog = tasks

\* C8 amended: a corruption error raised by the open or the clear aborts the
\* run only when a store file cannot be removed (RuntimeError of the removal);
\* otherwise the store file and its sidecars are removed, a fresh empty store
\* is opened and every collected task is imported into it
C8_CorruptionRecovery ==
    /\ (rpc = "raised") => ("malformed" \notin rerr.msg /\ "disk" \notin rerr.msg)
    /\ (rpc = "raised" /\ InFallback) => (rerr.kind = "RuntimeError" /\ rerr.step = "remove")
    /\ (InFallback /\ rpc \notin {"remove", "reopen", "raised"}) => FreshStoreInUse
    /\ (InFallback /\ rpc \in {"summary", "done"}) => procLog = tasks

C8_Witness ==
    /\ InFallback
    /\ rpc = "done"
    /\ store0 = OldStore
    /\ total = 2
    /\ impOk = {1, 2}
    /\ store["reactions"] = SourceRows(1) \cup SourceRows(2)

\* C9: a store file that cannot be removed in 10 attempts ends the run
\* before any import, with an error naming that file and without a fresh
\* store; a file that does not exist is skipped with no attempt and no error
C9_RemovalExhaustionFatal ==
    /\ [](/\ (rpc = "remove") => ui <= 10
          /\ (rpc = "raised" /\ rerr.step = "remove" /\ ui = 10) =>
                /\ rerr.kind = "RuntimeError"
                /\ rerr.names = {Targets[tgt]}
                /\ dbf[Targets[tgt]]
                /\ procLog = <<>>
                /\ store["reactions"] \subseteq store0["reactions"]
                /\ con # "fresh")
    /\ [][(rpc = "remove" /\ dbf[Targets[tgt]] /\ ui = 10) => rpc' = "raised"]_vars
    /\ [][(rpc = "remove" /\ dbf[Targets[tgt]] /\ ui < 10) =>
             (rpc' = "raised" \/ ui' = ui + 1 \/ ~dbf'[Targets[tgt]])]_vars
    /\ [][(rpc = "remove" /\ ~dbf[Targets[tgt]]) =>
             (rpc' # "raised" /\ dbf' = dbf /\ ui' = 0 /\ (tgt' = tgt + 1 \/ rpc' = "reopen"))]_vars

C9_Witness ==
    /\ rpc = "raised"
    /\ rerr.names = {"db-wal"}
    /\ ui = 10
    /\ ~dbf["db"]
    /\ dbf["db-wal"]

\* the documented order of the Clear phase
ClearOrder == <<"measurements", "reactions_fts", "reactions", "references_map">>

\* C10: the Clear phase deletes measurements, reactions_fts, reactions,
\* references_map in this order, goes to the next table only after the delete
\* succeeded, tries a delete at most 5 times, retries only after a lock
\* error, aborts on a lock error of the 5th attempt and on the first other
\* error, and imports nothing when it aborts
C10_ClearPhase ==
    /\ [](/\ (rpc = "clear") =>
                /\ i \in 0..4
                /\ tbl \in 1..4
                /\ pending = {ClearOrder[k] : k \in 1..(tbl - 1)}
          /\ (rpc = "commit") => pending = {ClearOrder[k] : k \in 1..4}
          /\ (rpc = "raised" /\ rerr.step = "clear") =>
                /\ procLog = <<>>
                /\ impOk = {}
                /\ store = store0
                /\ ("locked" \in rerr.msg) => i = 4)
    /\ [][(rpc = "clear" /\ rpc' = "clear" /\ tbl' = tbl) =>
             (i' = i + 1 /\ "locked" \in oe'.msg /\ pending' = pending)]_vars
    /\ [][(rpc = "clear" /\ (rpc' = "commit" \/ tbl' # tbl)) =>
             (pending' = pending \cup {ClearOrder[tbl]} /\ (rpc' = "commit" \/ tbl' = tbl + 1))]_vars

C10_Witness ==
    /\ rpc = "raised"
    /\ rerr.step = "clear"
    /\ "locked" \in rerr.msg
    /\ i = 4
    /\ tbl = 2
    /\ pending = {"measurements"}

InfoSet == {info[k] : k \in 1..Len(info)}

\* the step of lines 147-153
ReindexStep == rpc = "batch" /\ rpc' \notin {"batch", "import"}

\* C11: a failure of the full-text index rebuild does not make the run fail:
\* it is logged as a warning, the rows the Import phase committed stay as they
\* are, and Summary runs and reports the row counts of the store
C11_ReindexFailureTolerated ==
    /\ [][ReindexStep =>
             /\ rpc' = "summary"
             /\ rerr' = NoRErr
             /\ \/ info' = Append(info, "FTS")
                \/ info' = Append(info, "FTS_WARN") /\ store' = store
             /\ store'["reactions"] = store["reactions"]
             /\ store'["measurements"] = store["measurements"]]_vars
    /\ [][rpc = "summary" =>
             /\ rpc' = "done"
             /\ store' = store
             /\ summary' = [reactions |-> Cardinality(store["reactions"]),
                            measurements |-> Cardinality(store["measurements"])]
             /\ info' = Append(info, "DONE")]_vars
    /\ []((rpc = "raised") => ("FTS_WARN" \notin InfoSet /\ rerr.step # "reindex"))
    /\ []((rpc = "done" /\ "FTS_WARN" \in InfoSet) =>
             /\ info[Len(info)] = "DONE"
             /\ summary.reactions = Cardinality(store["reactions"])
             /\ summary.measurements = Cardinality(store["measurements"])
             /\ ImportedRows \subseteq store["reactions"])

C11_Witness ==
    /\ rpc = "done"
    /\ "FTS_WARN" \in InfoSet
    /\ summary.reactions = 7
    /\ impFail = {2}

\* the phases in the order of the code: Open, Clear, corruption fallback,
\* collect_sources, Import, Reindex and Summary, the end of the run
PhaseOf(pc) ==
    CASE pc = "idle" -> 0
      [] pc = "open" -> 1
      [] pc \in {"clear", "commit"} -> 2
      [] pc \in {"remove", "reopen"} -> 3
      [] pc = "collect" -> 4
      [] pc \in {"batch", "import", "validate"} -> 5
      [] pc = "summary" -> 6
      [] pc \in {"done", "returned", "raised"} -> 7

RunEnded == rpc \in {"done", "returned", "raised"}

\* C12: every run ends (Done, the zero-task return, or a fatal error) whatever
\* the task list, the batch size and the failures; the phases are entered in
\* the order Open, Clear, fallback, Import, Reindex, Summary, the Clear phase
\* is not entered again once it was left, and every retry loop is bounded
C12_RunTerminates ==
    /\ <>RunEnded
    /\ [][PhaseOf(rpc') >= PhaseOf(rpc)]_vars
    /\ [][(rpc \notin {"idle", "open", "clear"}) => rpc' # "clear"]_vars
    /\ [][RunEnded => UNCHANGED rebuildVars]_vars
    /\ [](/\ (rpc = "clear") => i < ClearRetries
          /\ (rpc = "remove") => ui <= RemoveRetries
          /\ (rpc \in {"batch", "import", "validate"}) => (i <= chunks /\ pos <= total + 1))
    /\ [][(rpc = "clear" /\ rpc' = "clear" /\ tbl' = tbl) => i' > i]_vars
    /\ [][(rpc = "remove" /\ rpc' = "remove" /\ tgt' = tgt) => ui' > ui]_vars

C12_Witness ==
    /\ rpc = "done"
    /\ InFallback
    /\ oe = ErrLocked
    /\ total = MaxFairTasks
    /\ chunk_size = 2
    /\ impFail # {}
    /\ valFail # {}

\* C19: the validation setter is called for a task only after the import of
\* that task returned without raising, and at most once per task; a task whose
\* import raised gets no validation call; a validation call that raises does
\* not keep later tasks from being imported and validated
C19_ValidationAfterImport ==
    /\ [](/\ valCalled \subseteq impOk
          /\ valCalled \cap impFail = {}
          /\ valFail \subseteq valCalled
          /\ (rpc = "validate") =>
                (tasks[pos] \in impOk /\ tasks[pos] \notin valCalled
                   /\ procLog[Len(procLog)] = tasks[pos])
          /\ (rpc = "import") => valCalled = impOk
          /\ ImportOver => (valCalled = impOk /\ procLog = tasks /\ impOk \cup impFail = TaskSet))
    /\ [][valCalled' # valCalled =>
             (rpc = "validate" /\ valCalled' = valCalled \cup {tasks[pos]} /\ rpc' = "import"
                /\ pos' = pos + 1)]_vars
    /\ [][rpc = "validate" => (valCalled' # valCalled /\ ~RunEnded')]_vars
    /\ [][impFail' # impFail => (rpc' # "validate" /\ valCalled' = valCalled)]_vars

C19_Witness ==
    /\ rpc = "done"
    /\ total = 4
    /\ impFail = {1}
    /\ valFail = {2}
    /\ valCalled = {2, 3, 4}
    /\ annot = {3, 4}

\* C20: when no file exists at the live path as swap_live_db starts, the
\* checkpoint and the backup are skipped: no file is created at the live path
\* before the promote, a backup that exists is left as it is and none is
\* created, and the only change is that the build file moves to the live path
C20_AbsentLiveSkipsBackup ==
    (swpc # "idle" /\ ncalls = 1 /\ ~pre["live"].ex) =>
        /\ fs["bak"] = pre["bak"]
        /\ fs["live-wal"] = pre["live-wal"]
        /\ fs["live-shm"] = pre["live-shm"]
        /\ (swpc \in {"sidecars", "backup", "backup_try"}) => ~fs["live"].ex
        /\ \/ fs["live"] = Absent /\ fs["build"] = pre["build"]
           \/ fs["live"] = pre["build"] /\ fs["build"] = Absent

(***************************************************************************)
(* Claims about collect_sources                                            *)
(***************************************************************************)
\* the tasks and the MISS lines of ledger entry (n, j)
TasksOf(n, j) == {k \in 1..Len(sources) : sources[k].tno = n /\ sources[k].source.stem = j}

MissesOf(n, j) ==
    {k \in 1..Len(clog) : clog[k].tag = "MISS" /\ clog[k].tno = n /\ clog[k].stem = j}

\* C13: collect_sources gives a Build Task for a ledger entry only if a .csv
\* or a .tsv source file exists for it (the .csv first); an entry with neither
\* gives no task and exactly one MISS line, and the entries after it in the
\* same ledger are still looked at
C13_TaskOnlyWithSource ==
    /\ [][cpc = "emit" =>
             /\ IF probe.csv \/ probe.tsv
                THEN /\ sources' = Append(sources,
                                     [tno |-> tno,
                                      source |-> [tno |-> tno, stem |-> ei,
                                                  ext |-> IF probe.csv THEN "csv" ELSE "tsv"],
                                      meta |-> meta])
                     /\ clog' = clog
                ELSE /\ sources' = sources
                     /\ clog' = Append(clog, [tag |-> "MISS", tno |-> tno, stem |-> ei])
             /\ cpc' = "entry"
             /\ ei' = ei + 1
             /\ nent' = nent]_vars
    /\ [][(cpc = "entry" /\ ei <= nent) => (cpc' = "emit" /\ ei' = ei)]_vars
    /\ [](\A k \in 1..Len(sources) : sources[k].source.ext \in {"csv", "tsv"})
    /\ []((cpc = "entry") =>
             \A j \in 1..(ei - 1) :
                 Cardinality(TasksOf(tno, j)) + Cardinality(MissesOf(tno, j)) = 1)

C13_Witness ==
    /\ cpc = "done"
    /\ Cardinality(MissesOf(5, 1)) = 1
    /\ TasksOf(5, 1) = {}
    /\ TasksOf(5, 2) = {1}
    /\ sources[1].source.ext = "tsv"

\* the table numbers of the tables argument
TableNumbers ==
    {TableNumber(InputTables[k]) : k \in {x \in 1..Len(InputTables) : ParsesAsInt(InputTables[x])}}

\* position of table number n in the tables argument
TablePos ==
    [n \in TableNumbers |->
        CHOOSE k \in 1..Len(InputTables) :
            ParsesAsInt(InputTables[k]) /\ TableNumber(InputTables[k]) = n]

\* the table numbers with a SKIP or a WARN line
PassedOver == {clog[k].tno : k \in {x \in 1..Len(clog) : clog[x].tag \in {"SKIP", "WARN"}}}

\* C14: a collection whose ledger is absent is passed over with a SKIP line,
\* one whose ledger cannot be loaded with a WARN line; neither gives a task,
\* the collections before and after it are still collected, and the result
\* lists the tasks in the order of the collections and, within a collection,
\* of the ledger
C14_LedgerFailureIsolation ==
    /\ [][(cpc = "table" /\ clog' # clog) =>
             /\ clog' = Append(clog, clog'[Len(clog')])
             /\ clog'[Len(clog')].tag \in {"SKIP", "WARN"}
             /\ clog'[Len(clog')].tno = TableNumber(InputTables[ti])
             /\ sources' = sources
             /\ cpc' = "table"
             /\ ti' = ti + 1]_vars
    /\ [][(cpc = "table" /\ ti <= Len(InputTables)) =>
             \/ cpc' = "table" /\ ti' = ti + 1 /\ sources' = sources
             \/ cpc' = "entry" /\ ti' = ti /\ ei' = 1
                  /\ tno' = TableNumber(InputTables[ti]) /\ sources' = sources]_vars
    /\ [][(cpc = "entry" /\ ei > nent) => (cpc' = "table" /\ ti' = ti + 1)]_vars
    /\ [][cpc' = "done" => (cpc = "done" \/ (cpc = "table" /\ ti > Len(InputTables)))]_vars
    /\ [](LET over == PassedOver
          IN /\ \A k \in 1..Len(sources) : sources[k].tno \notin over
             /\ \A k \in 1..Len(clog) : clog[k].tag = "MISS" => clog[k].tno \notin over
             /\ \A a \in 1..(Len(sources) - 1) :
                   \/ TablePos[sources[a].tno] < TablePos[sources[a + 1].tno]
                   \/ /\ sources[a].tno = sources[a + 1].tno
                      /\ sources[a].source.stem < sources[a + 1].source.stem)

C14_Witness ==
    /\ cpc = "done"
    /\ clog = <<[tag |-> "WARN", tno |-> 5, stem |-> 0]>>
    /\ Len(sources) = 2
    /\ sources[1].source = [tno |-> 6, stem |-> 1, ext |-> "csv"]
    /\ sources[2].source = [tno |-> 6, stem |-> 2, ext |-> "csv"]

\* the collection before a ledger that is absent is collected as well
C14_WitnessBefore ==
    /\ cpc = "done"
    /\ clog = <<[tag |-> "SKIP", tno |-> 6, stem |-> 0]>>
    /\ Len(sources) = 2
    /\ sources[1].tno = 5

\* the record a legacy bare boolean stands for
LegacyAsRecord(m) == IF m.form = "bool" THEN Dict(m.validated, "None", "None") ELSE m

\* C17: a legacy bare-boolean ledger value b is handled exactly like the
\* record {validated: b, by: null, at: null}: collect_sources puts the same
\* meta into the Build Task, and the validation setter gets the same
\* validated, by and at arguments
C17_LegacyBooleanEquivalence ==
    /\ [][(cpc = "emit" /\ source # NoSource) =>
             LET t == sources'[Len(sources')]
             IN /\ Len(sources') = Len(sources) + 1
                /\ t.meta = LegacyAsRecord(raw)
                /\ t.meta.form = "dict"
                /\ ValidationArgs(t.meta) =
                      [validated |-> raw.validated,
                       by |-> IF raw.form = "bool" THEN "None" ELSE raw.by,
                       at |-> IF raw.form = "bool" THEN "None" ELSE raw.at]]_vars
    /\ [](\A k \in 1..Len(sources) :
             /\ sources[k].meta.form = "dict"
             /\ sources[k].meta.validated \in BOOLEAN)

C17_Witness ==
    /\ cpc = "emit"
    /\ ei = 2
    /\ raw = Legacy(FALSE)
    /\ meta = Dict(FALSE, "None", "None")
    /\ source # NoSource
    /\ Len(sources) = 1
    /\ sources[1].meta = meta

(***************************************************************************)
(* Claims about build_db_offline_fast                                      *)
(***************************************************************************)
BuildFiles == {"build", "build-wal", "build-shm"}

\* C16: build_db_offline_fast never creates, deletes, renames or writes the
\* live store file or its sidecars; the only files it removes are the build
\* path and its -wal and -shm sidecars; the builder is invoked on the build
\* path only; when a stale build file cannot be removed the builder is not
\* invoked
C16_BuildLeavesLiveAlone ==
    (bpc # "idle") =>
        /\ \A p \in LivePaths : fs[p] = bfs0[p]
        /\ removed \subseteq BuildFiles
        /\ \A p \in BuildPaths \ BuildFiles : fs[p] = bfs0[p]
        /\ Len(built) <= 1
        /\ \A k \in 1..Len(built) : built[k] = "build"
        /\ (bpc = "raised" /\ berr.step = "remove") =>
              (built = <<>> /\ fs["build"] \in {bfs0["build"], Absent})
        /\ (built # <<>> /\ bfs0["build"].ex) =>
              \A p \in BuildFiles : bfs0[p].ex => p \in removed
        /\ (bpc \in {"check", "remove"}) => built = <<>>

C16_Witness ==
    /\ bpc = "done"
    /\ removed = BuildFiles
    /\ built = <<"build">>
    /\ fs["live"] = File({"a"})
    /\ fs["live-wal"] = File({"w"})
    /\ fs["build"] = File({"n"})

\* the stale sidecar of the build file cannot be removed: the run ends there
C16_WitnessRemovalFails ==
    /\ bpc = "raised"
    /\ berr.kind = "PermissionError"
    /\ berr.names = {"build-wal"}
    /\ removed = {"build"}
    /\ bui = RemoveRetries
    /\ built = <<>>

(***************************************************************************)
(* Claims about extract_zip_safely                                         *)
(***************************************************************************)
\* path p lies in dest_dir
InsideDest(p) == Len(p) >= Len(DestDir) /\ SubSeq(p, 1, Len(DestDir)) = DestDir

\* where entry n lands when its name is joined to dest_dir
JoinedDest(n) == Abspath(IF n.abs THEN n.parts ELSE DestDir \o n.parts)

\* C18: extract_zip_safely is all-or-nothing against path traversal: it raises
\* before any entry is written, or every entry it writes, dot-files included,
\* lands inside dest_dir; no entry whose joined destination lies outside
\* dest_dir is passed to the extraction
C18_ZipAllOrNothing ==
    /\ (zpc = "raised") => (written = {} /\ passed = <<>>)
    /\ \A d \in written : InsideDest(d)
    /\ \A k \in 1..Len(passed) : InsideDest(JoinedDest(passed[k]))

\* the tables that hold imported rows
RowTables == {"reactions", "measurements", "references_map"}

\* C15: running the rebuild twice against the same ledgers and source files
\* leaves the same store rows and the same validation annotations as running
\* it once: the second run adds no duplicate row and loses none
C15_RebuildIdempotent ==
    (run1.ran /\ rpc \in {"done", "returned"}) =>
        /\ \A t \in RowTables : store[t] = run1.store[t]
        /\ annot = run1.annot
        /\ total = run1.total
        /\ impFail = run1.impFail
        /\ (rpc = "done") =>
              summary.reactions = Cardinality(run1.store["reactions"])

C15_Witness ==
    /\ run1.ran
    /\ rpc = "done"
    /\ total = 2
    /\ impFail = {}
    /\ valFail = {2}
    /\ store0["reactions"] = SourceRows(1) \cup SourceRows(2)
    /\ store["reactions"] = store0["reactions"]
    /\ annot = {1}
    /\ InFallback

\* the second run of a first run in which an import failed
C15_WitnessImportFailed ==
    /\ run1.ran
    /\ rpc = "done"
    /\ total = 2
    /\ impFail = {1}
    /\ store["reactions"] = SourceRows(2)
    /\ annot = {2}

(***************************************************************************)
(* Claims about the sidecars and the retries of swap_live_db               *)
(***************************************************************************)
\* the committed content of the live store as the current call started
FormerLive == pre["live"].data \cup pre["live-wal"].data

\* the build file was renamed onto the live path in the current call
Promoted == att["promote"] > fails["promote"] /\ outcome["promote"] = "continued"

\* the live file was renamed to the backup path in the current call
BackedUp == att["backup"] > fails["backup"] /\ outcome["backup"] = "continued"

\* C21: during a call of swap_live_db that started with a live store, as long
\* as the former live file is on disk (at the live path, or at the backup
\* path once it was moved there) that file together with the write-ahead
\* sidecar left on disk holds all the committed content of the former live
\* store: the sidecar is discarded only when its content was merged
C21_SidecarKeptUntilMerged ==
    (swpc # "idle" /\ ncalls = 1 /\ pre["live"].ex /\ (BackedUp \/ ~Promoted)) =>
        FormerLive \subseteq
            (fs[IF BackedUp THEN "bak" ELSE "live"].data \cup fs["live-wal"].data)

\* C22: whatever the retries argument, 0 included, swap_live_db returns
\* without raising only after a rename of the build file onto the live path
\* succeeded, and, when a backup was requested and a live file existed, only
\* after a rename of the live file to the backup path succeeded; it never
\* returns normally after zero rename attempts
C22_SuccessOnlyAfterRename ==
    swpc = "done" =>
        /\ att["promote"] >= 1
        /\ Promoted
        /\ (args.backup /\ pre["live"].ex) => BackedUp

(***************************************************************************)
(* Offline builds and swaps, one call after the other                      *)
(***************************************************************************)
\* number of times the builder is invoked in one behaviour
MaxBuilds == 2

\* a deployment on which nothing was built yet: no file at the build path
InitPipeline ==
    /\ InitBuild
    /\ \A p \in BuildFiles : ~fs[p].ex

\* build_db_offline_fast(build_path) is called while no swap runs
PipelineBuildCall ==
    /\ swpc = "idle"
    /\ Len(built) < MaxBuilds
    /\ BuildCall

\* build_db_offline_fast returned or raised: the caller goes on
BuildReturn ==
    /\ bpc \in {"done", "raised"}
    /\ bpc' = "idle"
    /\ btgt' = 1
    /\ bui' = 0
    /\ berr' = NoErr
    /\ removed' = {}
    /\ UNCHANGED <<fs, built, bfs0>>
    /\ UNCHANGED notBuildVars

\* swap_live_db(build_path) is called while no build runs
PipelineSwapCall ==
    /\ bpc = "idle"
    /\ ncalls < MaxCalls
    /\ SwapCall

\* swap_live_db returned or raised: the caller goes on
SwapReturn ==
    /\ swpc \in {"done", "raised"}
    /\ swpc' = "idle"
    /\ args' = NoArgs
    /\ i' = 0
    /\ last_err' = "None"
    /\ err' = NoErr
    /\ att' = ZeroCount
    /\ fails' = ZeroCount
    /\ outcome' = NoOutcome
    /\ UNCHANGED <<fs, pre, first, ncalls, rebuildVars, auxVars>>

NextPipeline ==
    \/ PipelineBuildCall
    \/ BuildCheck
    \/ BuildRemoveSkip
    \/ BuildRemoveAttempt
    \/ BuildRemoveExhausted
    \/ FastBuild
    \/ BuildReturn
    \/ PipelineSwapCall
    \/ Checkpoint
    \/ ClearSidecars
    \/ BackupPrepare
    \/ BackupAttempt
    \/ BackupExhausted
    \/ PromoteAttempt
    \/ PromoteExhausted
    \/ SwapReturn

SpecPipeline == InitPipeline /\ [][NextPipeline]_vars

\* C23: after any sequence of offline builds and swaps, when
\* build_db_offline_fast invokes the builder no file exists at the build path
\* nor at its -wal and -shm sidecars, also when the build file itself was
\* absent as the call started
C23_BuilderStartsClean ==
    (bpc = "build") => \A p \in BuildFiles : ~fs[p].ex

====
